---- MODULE Spec2Model ----
(***************************************************************************)
(* HF Radio Blackout Forecasting API server (src/unnamed/part_000).        *)
(*                                                                         *)
(* The server is an Express router whose handlers suspend at every await   *)
(* and resume from the event loop.  Each request is a process of this      *)
(* model; an action is one run-to-completion step of a handler or of a     *)
(* child-process callback.  The uploads directory, the forecasts           *)
(* directory and the clock behind Date.now() are the shared state.         *)
(***************************************************************************)
EXTENDS Integers, Sequences, FiniteSets, TLC

VARIABLES
    req,        \* req[r]: the request r serves: its route and its body,
                \* params or file
    pc,         \* pc[r]: where the handler of r is suspended
    loc,        \* loc[r]: the handler's locals that live across an await
    child,      \* child[r]: the child process spawned for r
    promise,    \* promise[r]: the promise executePython returned to r
    res,        \* res[r]: the responses sent for r, in order
    uploads,    \* the uploads/ directory: path -> file
    forecastFiles, \* the names of the files in FORECASTS_DIR
    now,        \* Date.now()
    serverUp    \* FALSE once an uncaught exception has ended the process

vars ==
    <<req, pc, loc, child, promise, res, uploads, forecastFiles, now, serverUp>>

\* The two requests that may be in flight together.
Reqs == {"r1", "r2"}

\* Bounds of the model.
MaxBatch == 2      \* longest forecasts array of a batch request
MaxName  == 3      \* longest :filename, in characters
MaxClock == 1      \* Date.now() ranges over 0..MaxClock

-----------------------------------------------------------------------------
(* JavaScript values.  Numbers are held in hundredths: Num(75) is 0.75.    *)

Undef   == [t |-> "undefined"]
Null    == [t |-> "null"]
Bool(b) == [t |-> "bool", b |-> b]
Num(n)  == [t |-> "num", n |-> n]
Str(s)  == [t |-> "str", s |-> s]
Obj(m)  == [t |-> "obj", m |-> m]
Arr(a)  == [t |-> "arr", a |-> a]

\* !v
Falsy(v) ==
    \/ v.t \in {"undefined", "null"}
    \/ v.t = "bool" /\ ~v.b
    \/ v.t = "num" /\ v.n = 0
    \/ v.t = "str" /\ v.s = ""

\* o.k for a value o that is neither null nor undefined
Get(o, k) == IF o.t = "obj" /\ k \in DOMAIN o.m THEN o.m[k] ELSE Undef

\* ToNumber, for the relational operators: NaN where there is no number
NaN == [t |-> "nan"]
ToNumber(v) ==
    CASE v.t = "num"  -> v
      [] v.t = "null" -> Num(0)
      [] v.t = "bool" -> IF v.b THEN Num(100) ELSE Num(0)
      [] OTHER        -> NaN

\* v < n and v > n, false when either side is NaN
LessThan(v, n)    == ToNumber(v).t = "num" /\ ToNumber(v).n < n
GreaterThan(v, n) == ToNumber(v).t = "num" /\ ToNumber(v).n > n

\* Number.prototype.toString and the number in a template literal
NumText ==
    (0 - 50) :> "-0.5" @@ 0 :> "0" @@ 42 :> "0.42" @@ 75 :> "0.75"
    @@ 100 :> "1" @@ 150 :> "1.5"

\* `${v}`
TemplateString(v) ==
    CASE v.t = "num"       -> NumText[v.n]
      [] v.t = "str"       -> v.s
      [] v.t = "null"      -> "null"
      [] v.t = "undefined" -> "undefined"
      [] v.t = "bool"      -> IF v.b THEN "true" ELSE "false"

\* The message of the TypeError a property read on null or undefined throws
TypeErrorMessage(v, prop) ==
    "Cannot read properties of " \o TemplateString(v)
        \o " (reading '" \o prop \o "')"

-----------------------------------------------------------------------------
(* JSON.parse over a text held as its tokens.                              *)

\* The literal tokens and the values they denote
Literal ==
    "true" :> Bool(TRUE) @@ "false" :> Bool(FALSE) @@ "null" :> Null
    @@ "0.42" :> Num(42) @@ "7" :> Num(700)
    @@ "\"MODERATE\"" :> Str("MODERATE")
    @@ "\"bad input\"" :> Str("bad input")
    @@ "\"1.0\"" :> Str("1.0")

\* The string tokens that may stand as a member's name
KeyName ==
    "\"success\"" :> "success" @@ "\"error\"" :> "error"
    @@ "\"blackout_probability\"" :> "blackout_probability"
    @@ "\"risk_level\"" :> "risk_level"
    @@ "\"version\"" :> "version" @@ "\"features\"" :> "features"

Parsed(v)       == [ok |-> TRUE, value |-> v]
SyntaxError(m)  == [ok |-> FALSE, message |-> m]
UnexpectedEnd   == SyntaxError("Unexpected end of JSON input")
UnexpectedToken == SyntaxError("Unexpected token in JSON")

\* The members of an object from token i on; m holds the members read so far
RECURSIVE ParseMembers(_, _, _)
ParseMembers(toks, i, m) ==
    IF i + 2 > Len(toks) THEN UnexpectedEnd
    ELSE IF toks[i] \notin DOMAIN KeyName \/ toks[i + 1] # ":"
             \/ toks[i + 2] \notin DOMAIN Literal
         THEN UnexpectedToken
    ELSE LET k  == KeyName[toks[i]]
             m2 == [x \in (DOMAIN m) \cup {k} |->
                       IF x = k THEN Literal[toks[i + 2]] ELSE m[x]]
         IN  IF i + 3 > Len(toks) THEN UnexpectedEnd
             ELSE IF toks[i + 3] = "}"
                  THEN IF i + 3 = Len(toks) THEN Parsed(Obj(m2))
                       ELSE UnexpectedToken
             ELSE IF toks[i + 3] = "," THEN ParseMembers(toks, i + 4, m2)
             ELSE UnexpectedToken

EmptyMembers == [x \in {} |-> Undef]

JSONParse(toks) ==
    IF Len(toks) = 0 THEN UnexpectedEnd
    ELSE IF toks[1] \in DOMAIN Literal
         THEN IF Len(toks) = 1 THEN Parsed(Literal[toks[1]])
              ELSE UnexpectedToken
    ELSE IF toks[1] = "{"
         THEN IF Len(toks) = 1 THEN UnexpectedEnd
              ELSE IF toks[2] = "}"
                   THEN IF Len(toks) = 2 THEN Parsed(Obj(EmptyMembers))
                        ELSE UnexpectedToken
              ELSE ParseMembers(toks, 2, EmptyMembers)
    ELSE UnexpectedToken

-----------------------------------------------------------------------------
(* The external predictor.  It is opaque: a run is what it writes to its   *)
(* two streams, in chunks, and the code it exits with.                     *)

OkText ==
    << "{", "\"success\"", ":", "true", ",", "\"blackout_probability\"", ":",
       "0.42", ",", "\"risk_level\"", ":", "\"MODERATE\"", "}" >>
FailText ==
    << "{", "\"success\"", ":", "false", ",", "\"error\"", ":",
       "\"bad input\"", "}" >>
NoSuccessText == << "{", "\"blackout_probability\"", ":", "0.42", "}" >>

ChildRuns ==
    { [code |-> 0, out |-> <<SubSeq(OkText, 1, 4), SubSeq(OkText, 5, 13)>>,
       err |-> <<>>],
      [code |-> 0, out |-> <<FailText>>, err |-> <<>>],
      [code |-> 0, out |-> <<NoSuccessText>>, err |-> <<>>],
      [code |-> 0, out |-> <<SubSeq(OkText, 1, 4)>>, err |-> <<>>],
      [code |-> 1, out |-> <<>>, err |-> <<"model load ", "failed">>] }

\* The message of the error a failed spawn emits
SpawnErrorMessage == "spawn python ENOENT"

\* stdout += data.toString(), over the chunks of a run
RECURSIVE CollectStdout(_)
CollectStdout(chunks) ==
    IF chunks = <<>> THEN <<>>
    ELSE Head(chunks) \o CollectStdout(Tail(chunks))

\* stderr += data.toString(), over the chunks of a run
RECURSIVE CollectStderr(_)
CollectStderr(chunks) ==
    IF chunks = <<>> THEN ""
    ELSE Head(chunks) \o CollectStderr(Tail(chunks))

NoChild == [st |-> "none"]

\* The exit code a failed spawn hands to the 'close' listeners
SpawnFailedCode == 0 - 2

\* spawn(cmd, args); onError tells whether an 'error' listener is attached
Spawn(cmd, args, onError) ==
    [st |-> "running", cmd |-> cmd, args |-> args, onError |-> onError,
     code |-> 0, stdout |-> <<>>, stderr |-> ""]

-----------------------------------------------------------------------------
(* executePython: the promise and its two listeners.                       *)

NoPromise   == [state |-> "none"]
Pending     == [state |-> "pending"]
Resolved(v) == [state |-> "resolved", value |-> v]
Rejected(m) == [state |-> "rejected", message |-> m]

\* Settle with a later resolve or reject taking the place of the first
SettleLast(p, outcome) == IF p.state = "none" THEN p ELSE outcome

\* resolve and reject act on a pending promise only
Settle(p, outcome) == IF p.state = "pending" THEN outcome ELSE p

\* OnClose with the captured standard error left out of the message
OnCloseNoStderr(code, stdout, stderr) ==
    IF code # 0 THEN Rejected("Python script failed")
    ELSE LET parsed == JSONParse(stdout)
         IN  IF parsed.ok THEN Resolved(parsed.value)
             ELSE Rejected("Failed to parse Python output: " \o parsed.message)

\* python.on('close', ...)
OnClose(code, stdout, stderr) ==
    IF code # 0 THEN Rejected("Python script failed: " \o stderr)
    ELSE LET parsed == JSONParse(stdout)
         IN  IF parsed.ok THEN Resolved(parsed.value)
             ELSE Rejected("Failed to parse Python output: " \o parsed.message)

\* python.on('error', ...)
OnError(message) == Rejected("Failed to start Python: " \o message)

-----------------------------------------------------------------------------
(* Responses.                                                              *)

Response(status, body) == [status |-> status, body |-> body]

\* { success: false, error: message }
ErrorBody(message) == Obj([success |-> Bool(FALSE), error |-> Str(message)])

\* The catch block of every handler
Catch(message) == Response(500, ErrorBody(message))

\* Relay without the test of result.success
RelayAlways200(result) ==
    IF result.t \in {"null", "undefined"}
    THEN Catch(TypeErrorMessage(result, "success"))
    ELSE Response(200, result)

\* if (!result.success) return res.status(500).json(result); res.json(result)
Relay(result) ==
    IF result.t \in {"null", "undefined"}
    THEN Catch(TypeErrorMessage(result, "success"))
    ELSE IF Falsy(Get(result, "success")) THEN Response(500, result)
    ELSE Response(200, result)

-----------------------------------------------------------------------------
(* Paths and the two directories.                                          *)

\* A path under uploads/: the temporary CSV of a batch request, the script
\* of a model-info request (both named after Date.now()), or the file multer
\* stored under a name of its own for an upload request.
ReqNo == "r1" :> 1 @@ "r2" :> 2
TempPaths   == {"temp", "info"} \X (0..MaxClock)
UploadPaths == {"upload"} \X {ReqNo[r] : r \in Reqs}
Paths       == TempPaths \cup UploadPaths

Absent           == [writer |-> "none"]
File(r, content) == [writer |-> r, content |-> content]

\* A :filename is a sequence of characters
Chars     == {"a", ".", "/"}
RECURSIVE NamesOfLen(_)
NamesOfLen(n) ==
    IF n = 0 THEN {<<>>}
    ELSE {Append(s, c) : s \in NamesOfLen(n - 1), c \in Chars}
Filenames == UNION {NamesOfLen(n) : n \in 1..MaxName}

\* String.prototype.includes
Includes(s, sub) ==
    \E i \in 1..(Len(s) - Len(sub) + 1) : SubSeq(s, i, i + Len(sub) - 1) = sub

\* The segments of a path text, cut at every "/"
RECURSIVE Segments(_, _)
Segments(s, cur) ==
    IF s = <<>> THEN <<cur>>
    ELSE IF Head(s) = "/" THEN <<cur>> \o Segments(Tail(s), <<>>)
    ELSE Segments(Tail(s), Append(cur, Head(s)))

\* path.join's normalisation: "" and "." are dropped, ".." steps up
RECURSIVE Normalize(_, _)
Normalize(dir, segs) ==
    IF segs = <<>> THEN dir
    ELSE LET seg == Head(segs)
         IN  IF seg = <<>> \/ seg = <<".">> THEN Normalize(dir, Tail(segs))
             ELSE IF seg = <<".", ".">>
                  THEN Normalize(IF dir = <<>> THEN dir
                                 ELSE SubSeq(dir, 1, Len(dir) - 1), Tail(segs))
             ELSE Normalize(Append(dir, seg), Tail(segs))

APP_DIR       == << <<"app">> >>
FORECASTS_DIR == Append(APP_DIR, <<"forecasts">>)

\* path.join(dir, name)
PathJoin(dir, name) == Normalize(dir, Segments(name, <<>>))

\* fs.access succeeds on the directories and on the files of FORECASTS_DIR
Accessible(path, files) ==
    \/ path \in {<<>>, APP_DIR, FORECASTS_DIR}
    \/ \E f \in files : path = Append(FORECASTS_DIR, f)

-----------------------------------------------------------------------------
(* The requests a client may send.                                         *)

DT == "2026-02-01 12:00:00"

\* { datetime: dt, flare_probability: fp }, a key being left out when its
\* value is undefined
Forecast(dt, fp) ==
    Obj([k \in (IF dt = Undef THEN {} ELSE {"datetime"})
               \cup (IF fp = Undef THEN {} ELSE {"flare_probability"}) |->
            IF k = "datetime" THEN dt ELSE fp])

SingleBodies ==
    { Forecast(dt, fp) :
        dt \in {Undef, Null, Str(DT)},
        fp \in {Undef, Null, Num(0 - 50), Num(0), Num(100), Num(150)} }

\* The elements of a forecasts array: every one is an object
ForecastRecords ==
    { Forecast(Str(DT), Num(75)), Forecast(Str(DT), Num(150)),
      Forecast(Undef, Num(75)), Forecast(Str(DT), Undef) }

BatchBodies ==
    {Obj(EmptyMembers), Obj([forecasts |-> Str("none")])}
    \cup { Obj([forecasts |-> Arr(a)]) :
             a \in UNION {[1..n -> ForecastRecords] : n \in 0..MaxBatch} }

-----------------------------------------------------------------------------
(* The synchronous part of each handler, up to its first await.            *)

\* Stands for "no response yet: go on"
Proceed == Response(0, Undef)

\* SingleValidate without the upper limit of the range test
SingleValidateNoUpper(body) ==
    LET datetime          == Get(body, "datetime")
        flare_probability == Get(body, "flare_probability")
    IN  IF Falsy(datetime) \/ flare_probability = Undef
        THEN Response(400, ErrorBody(
                 "Missing required fields: datetime, flare_probability"))
        ELSE IF LessThan(flare_probability, 0)
        THEN Response(400, ErrorBody(
                 "flare_probability must be between 0 and 1"))
        ELSE IF flare_probability.t \in {"null", "undefined"}
        THEN Catch(TypeErrorMessage(flare_probability, "toString"))
        ELSE Proceed

\* POST /predict/single, to the call of executePython
SingleValidate(body) ==
    LET datetime          == Get(body, "datetime")
        flare_probability == Get(body, "flare_probability")
    IN  IF Falsy(datetime) \/ flare_probability = Undef
        THEN Response(400, ErrorBody(
                 "Missing required fields: datetime, flare_probability"))
        ELSE IF LessThan(flare_probability, 0)
                \/ GreaterThan(flare_probability, 100)
        THEN Response(400, ErrorBody(
                 "flare_probability must be between 0 and 1"))
        ELSE IF flare_probability.t \in {"null", "undefined"}
        THEN Catch(TypeErrorMessage(flare_probability, "toString"))
        ELSE Proceed

\* BatchLoop looking at element i only
BatchLoopFirstOnly(a, i) ==
    IF i > Len(a) THEN Proceed
    ELSE IF Falsy(Get(a[i], "datetime"))
            \/ Get(a[i], "flare_probability") = Undef
    THEN Response(400, ErrorBody(
             "Each forecast must have datetime and flare_probability"))
    ELSE Proceed

\* The loop over forecasts, from element i on: the first element that lacks
\* a field answers 400
RECURSIVE BatchLoop(_, _)
BatchLoop(a, i) ==
    IF i > Len(a) THEN Proceed
    ELSE IF Falsy(Get(a[i], "datetime"))
            \/ Get(a[i], "flare_probability") = Undef
    THEN Response(400, ErrorBody(
             "Each forecast must have datetime and flare_probability"))
    ELSE BatchLoop(a, i + 1)

\* POST /predict/batch, to fs.writeFile
BatchValidate(body) ==
    LET forecasts == Get(body, "forecasts")
    IN  IF Falsy(forecasts) \/ forecasts.t # "arr" \/ Len(forecasts.a) = 0
        THEN Response(400, ErrorBody("Missing or invalid forecasts array"))
        ELSE BatchLoop(forecasts.a, 1)

\* csvContent: the header line and one line for each forecast
CsvContent(a) ==
    <<"DateTime,flare_probability">>
    \o [i \in 1..Len(a) |->
          TemplateString(Get(a[i], "datetime")) \o ","
              \o TemplateString(Get(a[i], "flare_probability"))]

\* CsvValidate without the test for ".."
CsvValidateSlashOnly(filename) ==
    IF Includes(filename, <<"/">>)
    THEN Response(400, ErrorBody("Invalid filename"))
    ELSE Proceed

\* GET /predict/csv/:filename, to fs.access
CsvValidate(filename) ==
    IF Includes(filename, <<".", ".">>) \/ Includes(filename, <<"/">>)
    THEN Response(400, ErrorBody("Invalid filename"))
    ELSE Proceed

\* GET /model/info, in the 'close' listener after the script is unlinked
InfoRespond(code, stdout, stderr) ==
    IF code # 0 THEN Response(500, ErrorBody(stderr))
    ELSE LET parsed == JSONParse(stdout)
         IN  IF parsed.ok
             THEN Response(200,
                      Obj([success |-> Bool(TRUE), model |-> parsed.value]))
             ELSE Response(500, ErrorBody("Failed to parse model info"))

\* The text of a filename
RECURSIVE Text(_)
Text(s) == IF s = <<>> THEN "" ELSE Head(s) \o Text(Tail(s))

-----------------------------------------------------------------------------
(* The state machine.                                                      *)

NoReq == [kind |-> "none"]
NoLoc == [path |-> <<"none", 0>>, csvPath |-> <<>>, content |-> <<>>,
          result |-> Undef]

\* The files FORECASTS_DIR holds when the server starts
ForecastFilesAtStart == {<<"a">>}

Init ==
    /\ req = [r \in Reqs |-> NoReq]
    /\ pc = [r \in Reqs |-> "idle"]
    /\ loc = [r \in Reqs |-> NoLoc]
    /\ child = [r \in Reqs |-> NoChild]
    /\ promise = [r \in Reqs |-> NoPromise]
    /\ res = [r \in Reqs |-> <<>>]
    /\ uploads = [p \in Paths |-> Absent]
    /\ forecastFiles = ForecastFilesAtStart
    /\ now = 0
    /\ serverUp = TRUE

\* res.status(...).json(...), the handler returning after it
Respond(r, response) ==
    /\ res' = [res EXCEPT ![r] = Append(@, response)]
    /\ pc' = [pc EXCEPT ![r] = "done"]

\* await executePython(args): the child is spawned with both listeners
executePython(r, args) ==
    /\ child' = [child EXCEPT ![r] = Spawn("python", <<"predict.py">> \o args, TRUE)]
    /\ promise' = [promise EXCEPT ![r] = Pending]
    /\ pc' = [pc EXCEPT ![r] = "await_exec"]

\* What follows `await executePython(...)` in a handler once the promise p
\* has settled
AfterExec(r, p) ==
    IF p.state = "rejected"
    THEN Respond(r, Catch(p.message)) /\ UNCHANGED loc
    ELSE IF req[r].kind \in {"single", "csv"}
    THEN Respond(r, Relay(p.value)) /\ UNCHANGED loc
    ELSE /\ loc' = [loc EXCEPT ![r].result = p.value]
         /\ pc' = [pc EXCEPT ![r] = "await_unlink"]
         /\ UNCHANGED res

\* POST /predict/single
PredictSingle(r) ==
    /\ serverUp /\ pc[r] = "idle"
    /\ \E body \in SingleBodies :
         /\ req' = [req EXCEPT ![r] = [kind |-> "single", input |-> body]]
         /\ IF SingleValidate(body) # Proceed
            THEN Respond(r, SingleValidate(body)) /\ UNCHANGED <<child, promise>>
            ELSE /\ executePython(r,
                        << Get(body, "datetime").s,
                           TemplateString(Get(body, "flare_probability")) >>)
                 /\ UNCHANGED res
    /\ UNCHANGED <<loc, uploads, forecastFiles, now, serverUp>>

\* POST /predict/batch, to `await fs.writeFile(tempCsvPath, csvContent)`
PredictBatch(r) ==
    /\ serverUp /\ pc[r] = "idle"
    /\ \E body \in BatchBodies :
         LET tempCsvPath == <<"temp", now>>
         IN  /\ req' = [req EXCEPT ![r] = [kind |-> "batch", input |-> body]]
             /\ IF BatchValidate(body) # Proceed
                THEN Respond(r, BatchValidate(body)) /\ UNCHANGED loc
                ELSE /\ loc' = [loc EXCEPT ![r].path = tempCsvPath,
                                           ![r].content =
                                               CsvContent(Get(body, "forecasts").a)]
                     /\ pc' = [pc EXCEPT ![r] = "await_write"]
                     /\ UNCHANGED res
    /\ UNCHANGED <<child, promise, uploads, forecastFiles, now, serverUp>>

\* POST /predict/batch: the file is written and executePython is called
BatchWritten(r) ==
    /\ serverUp /\ pc[r] = "await_write" /\ req[r].kind = "batch"
    /\ uploads' = [uploads EXCEPT ![loc[r].path] = File(r, loc[r].content)]
    /\ executePython(r, <<"batch", [uploads |-> loc[r].path]>>)
    /\ UNCHANGED <<req, loc, res, forecastFiles, now, serverUp>>

\* POST /predict/upload: multer stores the file, if one came, under a name
\* of its own; the handler then calls executePython
PredictUpload(r) ==
    /\ serverUp /\ pc[r] = "idle"
    /\ \E hasFile \in BOOLEAN :
         LET path == <<"upload", ReqNo[r]>>
         IN  /\ req' = [req EXCEPT ![r] = [kind |-> "upload", input |-> [file |-> hasFile]]]
             /\ IF ~hasFile
                THEN /\ Respond(r, Response(400, ErrorBody("No file uploaded")))
                     /\ UNCHANGED <<loc, uploads, child, promise>>
                ELSE /\ uploads' = [uploads EXCEPT ![path] = File(r, <<"uploaded">>)]
                     /\ loc' = [loc EXCEPT ![r].path = path]
                     /\ executePython(r, <<"batch", [uploads |-> path]>>)
                     /\ UNCHANGED res
    /\ UNCHANGED <<forecastFiles, now, serverUp>>

\* POST /predict/batch and /predict/upload: `await fs.unlink(...)` is over
\* (a file already gone is an error the handler swallows), the result is
\* relayed
Unlinked(r) ==
    /\ serverUp /\ pc[r] = "await_unlink" /\ req[r].kind \in {"batch", "upload"}
    /\ uploads' = [uploads EXCEPT ![loc[r].path] = Absent]
    /\ Respond(r, Relay(loc[r].result))
    /\ UNCHANGED <<req, loc, child, promise, forecastFiles, now, serverUp>>

\* GET /predict/csv/:filename, to `await fs.access(csvPath)`
PredictCsv(r) ==
    /\ serverUp /\ pc[r] = "idle"
    /\ \E filename \in Filenames :
         /\ req' = [req EXCEPT ![r] = [kind |-> "csv", input |-> [filename |-> filename]]]
         /\ IF CsvValidate(filename) # Proceed
            THEN Respond(r, CsvValidate(filename)) /\ UNCHANGED loc
            ELSE /\ loc' = [loc EXCEPT ![r].csvPath = PathJoin(FORECASTS_DIR, filename)]
                 /\ pc' = [pc EXCEPT ![r] = "await_access"]
                 /\ UNCHANGED res
    /\ UNCHANGED <<child, promise, uploads, forecastFiles, now, serverUp>>

\* CsvAccessed with the named file removed once it has been handed to the
\* predictor, the way the batch handler removes its own file
CsvAccessedUnlinks(r) ==
    /\ serverUp /\ pc[r] = "await_access"
    /\ IF Accessible(loc[r].csvPath, forecastFiles)
       THEN /\ executePython(r, <<"batch", [forecasts |-> loc[r].csvPath]>>)
            /\ forecastFiles' = forecastFiles \ {req[r].input.filename}
            /\ UNCHANGED res
       ELSE /\ Respond(r, Response(404,
                   ErrorBody("File not found: " \o Text(req[r].input.filename))))
            /\ UNCHANGED <<child, promise, forecastFiles>>
    /\ UNCHANGED <<req, loc, uploads, now, serverUp>>

\* GET /predict/csv/:filename: fs.access has answered
CsvAccessed(r) ==
    /\ serverUp /\ pc[r] = "await_access"
    /\ IF Accessible(loc[r].csvPath, forecastFiles)
       THEN executePython(r, <<"batch", [forecasts |-> loc[r].csvPath]>>)
            /\ UNCHANGED res
       ELSE /\ Respond(r, Response(404,
                   ErrorBody("File not found: " \o Text(req[r].input.filename))))
            /\ UNCHANGED <<child, promise>>
    /\ UNCHANGED <<req, loc, uploads, forecastFiles, now, serverUp>>

\* GET /model/info, to `await fs.writeFile(tempScript, pythonCode)`
ModelInfo(r) ==
    /\ serverUp /\ pc[r] = "idle"
    /\ req' = [req EXCEPT ![r] = [kind |-> "info", input |-> Undef]]
    /\ loc' = [loc EXCEPT ![r].path = <<"info", now>>,
                          ![r].content = <<"pythonCode">>]
    /\ pc' = [pc EXCEPT ![r] = "await_write"]
    /\ UNCHANGED <<child, promise, res, uploads, forecastFiles, now, serverUp>>

\* GET /model/info: the script is written and python3 is spawned, with a
\* 'close' listener and no 'error' listener
InfoWritten(r) ==
    /\ serverUp /\ pc[r] = "await_write" /\ req[r].kind = "info"
    /\ uploads' = [uploads EXCEPT ![loc[r].path] = File(r, loc[r].content)]
    /\ child' = [child EXCEPT ![r] = Spawn("python3", <<[uploads |-> loc[r].path]>>, FALSE)]
    /\ pc' = [pc EXCEPT ![r] = "await_close"]
    /\ UNCHANGED <<req, loc, promise, res, forecastFiles, now, serverUp>>

\* The child runs to its end: the 'data' listeners collect what it wrote
ChildExit(r) ==
    /\ serverUp /\ child[r].st = "running"
    /\ \E run \in ChildRuns :
         child' = [child EXCEPT ![r].st = "exited",
                                ![r].code = run.code,
                                ![r].stdout = CollectStdout(run.out),
                                ![r].stderr = CollectStderr(run.err)]
    /\ UNCHANGED <<req, pc, loc, promise, res, uploads, forecastFiles, now, serverUp>>

\* The child could not be started and executePython's 'error' listener runs
PythonError(r) ==
    /\ serverUp /\ child[r].st = "running" /\ child[r].onError
    /\ child' = [child EXCEPT ![r].st = "errored", ![r].code = SpawnFailedCode]
    /\ promise' = [promise EXCEPT ![r] = Settle(@, OnError(SpawnErrorMessage))]
    /\ AfterExec(r, promise'[r])
    /\ UNCHANGED <<req, uploads, forecastFiles, now, serverUp>>

\* The child of GET /model/info could not be started: its 'error' event has
\* no listener, the exception is uncaught and the server process ends
InfoSpawnError(r) ==
    /\ serverUp /\ child[r].st = "running" /\ ~child[r].onError
    /\ child' = [child EXCEPT ![r].st = "errored", ![r].code = SpawnFailedCode]
    /\ serverUp' = FALSE
    /\ UNCHANGED <<req, pc, loc, promise, res, uploads, forecastFiles, now>>

\* executePython's 'close' listener, and the handler resumed by it
PythonClosed(r) ==
    /\ serverUp /\ child[r].st \in {"exited", "errored"} /\ child[r].onError
    /\ child' = [child EXCEPT ![r].st = "closed"]
    /\ promise' = [promise EXCEPT ![r] =
           Settle(@, OnClose(child[r].code, child[r].stdout, child[r].stderr))]
    /\ IF promise[r].state = "pending"
       THEN AfterExec(r, promise'[r])
       ELSE UNCHANGED <<pc, loc, res>>
    /\ UNCHANGED <<req, uploads, forecastFiles, now, serverUp>>

\* The 'close' listener of GET /model/info, to `await fs.unlink(tempScript)`
InfoClosed(r) ==
    /\ serverUp /\ child[r].st = "exited" /\ ~child[r].onError
    /\ child' = [child EXCEPT ![r].st = "closed"]
    /\ pc' = [pc EXCEPT ![r] = "await_unlink"]
    /\ UNCHANGED <<req, loc, promise, res, uploads, forecastFiles, now, serverUp>>

\* The 'close' listener of GET /model/info, from the unlink to the response
InfoUnlinked(r) ==
    /\ serverUp /\ pc[r] = "await_unlink" /\ req[r].kind = "info"
    /\ uploads' = [uploads EXCEPT ![loc[r].path] = Absent]
    /\ Respond(r, InfoRespond(child[r].code, child[r].stdout, child[r].stderr))
    /\ UNCHANGED <<req, loc, child, promise, forecastFiles, now, serverUp>>

\* Time passes
Tick ==
    /\ now < MaxClock
    /\ now' = now + 1
    /\ UNCHANGED <<req, pc, loc, child, promise, res, uploads, forecastFiles, serverUp>>

Next ==
    \/ \E r \in Reqs : PredictSingle(r)
    \/ \E r \in Reqs : PredictBatch(r)
    \/ \E r \in Reqs : BatchWritten(r)
    \/ \E r \in Reqs : PredictUpload(r)
    \/ \E r \in Reqs : Unlinked(r)
    \/ \E r \in Reqs : PredictCsv(r)
    \/ \E r \in Reqs : CsvAccessed(r)
    \/ \E r \in Reqs : ModelInfo(r)
    \/ \E r \in Reqs : InfoWritten(r)
    \/ \E r \in Reqs : ChildExit(r)
    \/ \E r \in Reqs : PythonError(r)
    \/ \E r \in Reqs : InfoSpawnError(r)
    \/ \E r \in Reqs : PythonClosed(r)
    \/ \E r \in Reqs : InfoClosed(r)
    \/ \E r \in Reqs : InfoUnlinked(r)
    \/ Tick

Spec == Init /\ [][Next]_vars

-----------------------------------------------------------------------------
(* Properties.                                                             *)

Predictions == {"single", "batch", "upload", "csv"}

\* r has been answered
Answered(r) == res[r] # <<>>

\* r has been answered once, with this status
AnsweredOnce(r, status) == Len(res[r]) = 1 /\ res[r][1].status = status

\* b is { success: false, error: <message> }
IsErrorBody(b) ==
    /\ b.t = "obj"
    /\ DOMAIN b.m = {"success", "error"}
    /\ b.m["success"] = Bool(FALSE)
    /\ b.m["error"].t = "str"

\* The file r wrote under uploads/ is still there
ArtifactLeft(r) == \E p \in Paths : uploads[p].writer = r

\* The records of a batch body, <<>> when it holds no array
RecordsOf(body) ==
    IF Get(body, "forecasts").t = "arr" THEN Get(body, "forecasts").a ELSE <<>>

\* The record carries no such field
Lacks(rec, k) == k \notin DOMAIN rec.m

\* v is a number in the closed interval [0, 1]
InUnit(v) == v.t = "num" /\ 0 <= v.n /\ v.n <= 100

\* v is a number outside the closed interval [0, 1]
OutsideUnit(v) == v.t = "num" /\ (v.n < 0 \/ v.n > 100)

\* The child of r exited with a code other than 0 (it did start)
ExitedNonZero(r) ==
    child[r].st \in {"exited", "closed"} /\ child[r].code > 0

\* The child of r exited with code 0
ExitedZero(r) == child[r].st \in {"exited", "closed"} /\ child[r].code = 0

\* C1: once a POST /predict/batch request that wrote its temporary CSV has
\* been answered, the file it wrote is gone, whatever the child did.
C1_BatchArtifactRemoved ==
    \A r \in Reqs :
        req[r].kind = "batch" /\ Answered(r) => ~ArtifactLeft(r)

\* C2: once a POST /predict/upload request that carried a file has been
\* answered, the uploaded file is gone, whatever the child did.
C2_UploadRemoved ==
    \A r \in Reqs :
        req[r].kind = "upload" /\ Answered(r) => ~ArtifactLeft(r)

\* C3: a batch whose list holds a record without datetime or without
\* flare_probability, at any position, is answered 400, and in no state is
\* there a file written for it or a child spawned for it.
C3_BatchRejectsLackingRecord ==
    \A r \in Reqs :
        ( /\ req[r].kind = "batch"
          /\ \E i \in 1..Len(RecordsOf(req[r].input)) :
                 \/ Lacks(RecordsOf(req[r].input)[i], "datetime")
                 \/ Lacks(RecordsOf(req[r].input)[i], "flare_probability") )
        => /\ AnsweredOnce(r, 400)
           /\ IsErrorBody(res[r][1].body)
           /\ ~ArtifactLeft(r)
           /\ child[r] = NoChild
           /\ pc[r] = "done"

\* C3 witness: a batch whose second record lacks a field, the first being
\* complete, has been answered 400.
C3_Witness ==
    \E r \in Reqs :
        /\ req[r].kind = "batch"
        /\ Len(RecordsOf(req[r].input)) = 2
        /\ ~Lacks(RecordsOf(req[r].input)[1], "datetime")
        /\ ~Lacks(RecordsOf(req[r].input)[1], "flare_probability")
        /\ Lacks(RecordsOf(req[r].input)[2], "flare_probability")
        /\ AnsweredOnce(r, 400)

\* C4: whenever a batch request has written its file or spawned its child,
\* every record has flare_probability in [0,1]; and a batch with a record
\* whose flare_probability is outside [0,1] is answered with a 4xx.
C4_BatchValidatesRange ==
    \A r \in Reqs :
        req[r].kind = "batch" =>
            /\ (ArtifactLeft(r) \/ child[r] # NoChild) =>
                   \A i \in 1..Len(RecordsOf(req[r].input)) :
                       InUnit(Get(RecordsOf(req[r].input)[i], "flare_probability"))
            /\ ( /\ Answered(r)
                 /\ \E i \in 1..Len(RecordsOf(req[r].input)) :
                        OutsideUnit(Get(RecordsOf(req[r].input)[i],
                                        "flare_probability")) )
               => res[r][1].status \in 400..499

\* The messages that name the field flare_probability
NamesFlareProbability ==
    { "Missing required fields: datetime, flare_probability",
      "flare_probability must be between 0 and 1" }

\* C5: a single prediction whose flare_probability is outside [0,1] is
\* answered 400 with an error message naming flare_probability, and no
\* child is spawned for it.
C5_SingleRejectsOutOfRange ==
    \A r \in Reqs :
        ( /\ req[r].kind = "single"
          /\ OutsideUnit(Get(req[r].input, "flare_probability")) )
        => /\ AnsweredOnce(r, 400)
           /\ IsErrorBody(res[r][1].body)
           /\ res[r][1].body.m["error"].s \in NamesFlareProbability
           /\ child[r] = NoChild

\* C5 witness: a single prediction with a datetime and flare_probability 1.5
\* has been answered.
C5_Witness ==
    \E r \in Reqs :
        /\ req[r].kind = "single"
        /\ Get(req[r].input, "datetime") = Str(DT)
        /\ Get(req[r].input, "flare_probability") = Num(150)
        /\ Answered(r)

\* C6: a single prediction in which datetime or flare_probability is not
\* supplied, or is null, is answered once with a 4xx and the body
\* {success: false, error: <message>}, and no child is spawned for it.
C6_SingleAbsentIsClientError ==
    \A r \in Reqs :
        ( /\ req[r].kind = "single"
          /\ \/ Get(req[r].input, "datetime") \in {Undef, Null}
             \/ Get(req[r].input, "flare_probability") \in {Undef, Null} )
        => /\ Len(res[r]) = 1
           /\ res[r][1].status \in 400..499
           /\ IsErrorBody(res[r][1].body)
           /\ child[r] = NoChild

\* C7, as the claim states it: when the child of a prediction request has
\* exited non-zero with standard error S and the close listener has run,
\* the response is 500 {success: false, error: S}.
C7_ErrorIsStderr ==
    \A r \in Reqs :
        ( /\ req[r].kind \in Predictions
          /\ ExitedNonZero(r) /\ child[r].st = "closed" )
        => res[r] = <<Response(500, ErrorBody(child[r].stderr))>>

\* C7, amended: the response is 500 {success: false, error: M} where M is
\* "Python script failed: " followed by S.
C7_ErrorIsPrefixedStderr ==
    \A r \in Reqs :
        ( /\ req[r].kind \in Predictions
          /\ ExitedNonZero(r) /\ child[r].st = "closed" )
        => res[r] = <<Response(500,
                       ErrorBody("Python script failed: " \o child[r].stderr))>>

\* C7 witness: the child of a batch request exited 1 having written
\* "model load failed" to standard error, and the request has been answered.
C7_Witness ==
    \E r \in Reqs :
        /\ req[r].kind = "batch"
        /\ child[r].st = "closed" /\ child[r].code = 1
        /\ child[r].stderr = "model load failed"
        /\ Answered(r)

\* The object of the spec's example
ExampleResult ==
    Obj([success |-> Bool(TRUE), blackout_probability |-> Num(42),
         risk_level |-> Str("MODERATE")])

\* C8: when the child of a prediction request exited 0 having printed a JSON
\* object R, the request, once answered, has been answered once: 200 with
\* body R if R.success is true, 500 with body R if R.success is false or
\* missing.  The object of the example is relayed as such.
C8_ResultRelayedVerbatim ==
    \A r \in Reqs :
        ( /\ req[r].kind \in Predictions
          /\ ExitedZero(r)
          /\ JSONParse(child[r].stdout).ok
          /\ JSONParse(child[r].stdout).value.t = "obj"
          /\ pc[r] = "done" )
        => LET R == JSONParse(child[r].stdout).value
           IN  /\ Get(R, "success") = Bool(TRUE) =>
                      res[r] = <<Response(200, R)>>
               /\ Get(R, "success") \in {Bool(FALSE), Undef} =>
                      res[r] = <<Response(500, R)>>
               /\ child[r].stdout = OkText =>
                      res[r] = <<Response(200, ExampleResult)>>

\* C8 witness: a batch request whose child printed an object with success
\* false has been answered, and so has an upload request whose child
\* printed the object of the example.
C8_Witness ==
    /\ \E r \in Reqs :
         /\ req[r].kind = "batch" /\ pc[r] = "done"
         /\ ExitedZero(r) /\ child[r].stdout = FailText
    /\ \E r \in Reqs :
         /\ req[r].kind = "upload" /\ pc[r] = "done"
         /\ ExitedZero(r) /\ child[r].stdout = OkText

\* C9: a GET /predict/csv/:filename whose filename contains ".." or "/" is
\* answered 400; fs.access is not reached (the handler never waits for it
\* and csvPath is never computed) and no child is spawned.
C9_TraversalRejected ==
    \A r \in Reqs :
        ( /\ req[r].kind = "csv"
          /\ \/ Includes(req[r].input.filename, <<".", ".">>)
             \/ Includes(req[r].input.filename, <<"/">>) )
        => /\ AnsweredOnce(r, 400)
           /\ pc[r] = "done"
           /\ loc[r] = NoLoc
           /\ child[r] = NoChild

\* C9 witness: two such requests have been answered, one naming a path that
\* exists and one naming a path that does not.
C9_Witness ==
    /\ \E r \in Reqs :
         /\ req[r].kind = "csv" /\ Includes(req[r].input.filename, <<".", ".">>)
         /\ Accessible(PathJoin(FORECASTS_DIR, req[r].input.filename), forecastFiles)
         /\ Answered(r)
    /\ \E r \in Reqs :
         /\ req[r].kind = "csv" /\ Includes(req[r].input.filename, <<"/">>)
         /\ ~Accessible(PathJoin(FORECASTS_DIR, req[r].input.filename), forecastFiles)
         /\ Answered(r)

\* The child of r failed to start, exited non-zero, or printed what does not
\* parse as JSON
ChildFailed(r) ==
    \/ child[r].st = "errored"
    \/ /\ child[r].st \in {"exited", "closed"}
       /\ child[r].code # 0 \/ ~JSONParse(child[r].stdout).ok

\* C10: a request whose child failed is answered exactly once, with a 5xx
\* and the body {success: false, error: <message>}.  Stated on the states in
\* which nothing more can happen to the request: its handler has returned,
\* or the server process has ended.
C10_ChildFailureAnswered5xx ==
    \A r \in Reqs :
        (ChildFailed(r) /\ (pc[r] = "done" \/ ~serverUp))
        => /\ Len(res[r]) = 1
           /\ res[r][1].status \in 500..599
           /\ IsErrorBody(res[r][1].body)

\* C11: while the child of a POST /predict/batch request runs, the file it
\* was given exists and holds that request's records: no other request in
\* flight has overwritten or deleted it.
C11_BatchArtifactOwn ==
    \A r \in Reqs :
        (req[r].kind = "batch" /\ child[r].st = "running")
        => /\ uploads[loc[r].path] # Absent
           /\ uploads[loc[r].path].content = loc[r].content

\* The child of r was spawned by executePython
ByExecutePython(r) == child[r] # NoChild /\ child[r].onError

\* C12: the promise of an executePython call is pending until the child's
\* 'close' (or, when the child could not be started, its 'error') and is
\* settled once: resolved with the parsed object exactly when the exit code
\* is 0 and the collected output parses; rejected with the captured
\* standard error after a non-zero exit, with the parse error after exit 0
\* and unparsable output, and with the start failure after a failed spawn,
\* which the later 'close' leaves as it is.
C12_SettlesOnce ==
    \A r \in Reqs :
        ByExecutePython(r) =>
            LET c      == child[r]
                parsed == JSONParse(c.stdout)
            IN  /\ c.st \in {"running", "exited"} => promise[r] = Pending
                /\ (c.st = "closed" /\ c.code = 0 /\ parsed.ok)
                       => promise[r] = Resolved(parsed.value)
                /\ promise[r].state = "resolved"
                       => c.st = "closed" /\ c.code = 0 /\ parsed.ok
                /\ (c.st = "closed" /\ c.code > 0)
                       => promise[r] =
                              Rejected("Python script failed: " \o c.stderr)
                /\ (c.st = "closed" /\ c.code = 0 /\ ~parsed.ok)
                       => promise[r] =
                              Rejected("Failed to parse Python output: "
                                           \o parsed.message)
                /\ (c.st \in {"errored", "closed"} /\ c.code = SpawnFailedCode)
                       => promise[r] =
                              Rejected("Failed to start Python: "
                                           \o SpawnErrorMessage)
                /\ promise[r].state \in {"resolved", "rejected"}
                       => Len(res[r]) = 1 \/ pc[r] = "await_unlink"

\* C12 witness: a child that could not be started has had its 'error' and
\* then its 'close', and another request's child has exited 0 with output
\* that does not parse and has been closed.
C12_Witness ==
    /\ \E r \in Reqs :
         /\ ByExecutePython(r)
         /\ child[r].st = "closed" /\ child[r].code = SpawnFailedCode
         /\ promise[r].state = "rejected"
    /\ \E r \in Reqs :
         /\ ByExecutePython(r)
         /\ child[r].st = "closed" /\ child[r].code = 0
         /\ ~JSONParse(child[r].stdout).ok
         /\ promise[r].state = "rejected"

\* The file a GET /predict/csv/:filename request names does not exist
NamedFileMissing(r) ==
    ~Accessible(PathJoin(FORECASTS_DIR, req[r].input.filename), forecastFiles)

\* C13, as the claim states it: FORECASTS_DIR holds the files it held when
\* the server started, whatever requests have been served; and a GET
\* /predict/csv/:filename naming a file that does not exist is answered 404
\* with no child spawned.
C13_CsvReadOnlyAnd404 ==
    /\ forecastFiles = ForecastFilesAtStart
    /\ \A r \in Reqs :
           (req[r].kind = "csv" /\ NamedFileMissing(r) /\ pc[r] = "done")
           => AnsweredOnce(r, 404) /\ child[r] = NoChild

\* C13, amended: as above, the 404 being the answer when the filename
\* contains neither ".." nor "/" (a filename that does is answered 400).
C13_CsvReadOnlyAnd404IfValid ==
    /\ forecastFiles = ForecastFilesAtStart
    /\ \A r \in Reqs :
           ( /\ req[r].kind = "csv" /\ NamedFileMissing(r) /\ pc[r] = "done"
             /\ ~Includes(req[r].input.filename, <<".", ".">>)
             /\ ~Includes(req[r].input.filename, <<"/">>) )
           => AnsweredOnce(r, 404) /\ child[r] = NoChild

\* C13 witness: one request naming a file that exists has been answered 200
\* and another, naming a file that does not, has been answered 404.
C13_Witness ==
    /\ \E r \in Reqs :
         /\ req[r].kind = "csv" /\ req[r].input.filename \in forecastFiles
         /\ AnsweredOnce(r, 200)
    /\ \E r \in Reqs :
         /\ req[r].kind = "csv" /\ NamedFileMissing(r)
         /\ AnsweredOnce(r, 404)

====
